---- MODULE Spec2Model ----
(***************************************************************************)
(* The Store / Collection persistence and identity model of storaj         *)
(* (src/src/store.ts).  A Store is a registry of Collection objects keyed  *)
(* by name; a Collection is a Map from identifier to item.  The model      *)
(* keeps JavaScript values as tagged records so that typeof, the spread    *)
(* { _id: id, ...object }, JSON.stringify and JSON.parse are computed as   *)
(* the code computes them.                                                 *)
(***************************************************************************)
EXTENDS Integers, Sequences, FiniteSets, TLC

(***************************************************************************)
(* JavaScript values.  v is always a string (the text of the value).       *)
(***************************************************************************)
Str(s) == [t |-> "string", v |-> s]
Num(s) == [t |-> "number", v |-> s]
NaN == [t |-> "number", v |-> "NaN"]
Undefined == [t |-> "undefined", v |-> "undefined"]
Null == [t |-> "null", v |-> "null"]
True == [t |-> "boolean", v |-> "true"]
Obj == [t |-> "object", v |-> "{}"]
Arr == [t |-> "array", v |-> "[]"]

\* typeof value
TypeOf(value) ==
    CASE value.t = "null" -> "object"
      [] value.t = "array" -> "object"
      [] OTHER -> value.t

\* !value for the values a path can take
Falsy(value) == value = Undefined \/ value = Null \/ value = Str("")

\* item[prop]: an object is a function from its own keys to values
Prop(item, prop) == IF prop \in DOMAIN item THEN item[prop] ELSE Undefined

\* { ...base, ...over }: later keys override earlier ones
Spread(base, over) ==
    [k \in (DOMAIN base) \cup (DOMAIN over) |->
        IF k \in DOMAIN over THEN over[k] ELSE base[k]]

\* const { k1, k2, ...rest } = item
Rest(item, keys) == [k \in (DOMAIN item) \ keys |-> item[k]]

(***************************************************************************)
(* Map<K, V>: a sequence of entries in insertion order.                    *)
(***************************************************************************)
MapHas(m, key) == \E i \in 1..Len(m) : m[i].key = key

MapIndex(m, key) == CHOOSE i \in 1..Len(m) : m[i].key = key

MapGet(m, key) == IF MapHas(m, key) THEN m[MapIndex(m, key)].val ELSE Undefined

\* Map.set: an existing key keeps its position and takes the new value
MapSet(m, key, val) ==
    IF MapHas(m, key)
    THEN [m EXCEPT ![MapIndex(m, key)] = [key |-> key, val |-> val]]
    ELSE Append(m, [key |-> key, val |-> val])

MapKeys(m) == [i \in 1..Len(m) |-> m[i].key]

MapValues(m) == [i \in 1..Len(m) |-> m[i].val]

(***************************************************************************)
(* Errors                                                                  *)
(***************************************************************************)
OK == "ok"
ErrIdType == "InsertionError: The id of an item must be a number or a string."
ErrIdExists == "InsertionError: The id already exists in the collection"
ErrEmptyId == "InvalidItemError: id must not be empty."
ErrEmptyCollection == "InvalidItemError: collection name must not be empty."
ErrBadProps == "InvalidItemError: missing props or props of the wrong type"
ErrFileSchema == "Invalid schema coming from file. Data must be an array of objects"
ErrArgSchema == "Invalid schema passed to function. Argument must be an array of objects"
ErrNoEnt == "ENOENT: no such file or directory"
ErrSyntax == "SyntaxError: JSON.parse"
ErrWrite == "EIO: write failed"

IsInsertionError(e) == e \in {ErrIdType, ErrIdExists}
IsInvalidItemError(e) == e \in {ErrEmptyId, ErrEmptyCollection, ErrBadProps}

(***************************************************************************)
(* itemHasProp and the two validators                                      *)
(***************************************************************************)
\* itemHasProp without the comparison of typeof value with type
itemHasProp_NoTypeCheck(item, prop, type) == Prop(item, prop) # Undefined

itemHasProp(item, prop, type) ==
    LET value == Prop(item, prop) IN
    IF value = Undefined THEN FALSE
    ELSE IF TypeOf(value) # type THEN FALSE
    ELSE TRUE

\* _validateInsert without the this._items.has(item._id) check
_validateInsert_NoExistsCheck(c, item) ==
    IF ~(itemHasProp(item, "_id", "string") \/ itemHasProp(item, "_id", "number"))
    THEN ErrIdType
    ELSE OK

\* Collection._validateInsert on a collection object c
_validateInsert(c, item) ==
    LET idIsValid == itemHasProp(item, "_id", "string")
                     \/ itemHasProp(item, "_id", "number") IN
    IF ~idIsValid THEN ErrIdType
    ELSE IF MapHas(c._items, item._id) THEN ErrIdExists
    ELSE OK

\* validateSerializedItem without the item._id === "" check
validateSerializedItem_NoEmptyIdCheck(item) ==
    IF Prop(item, "_collection") = Str("") THEN ErrEmptyCollection
    ELSE IF ~((itemHasProp(item, "_id", "string") \/ itemHasProp(item, "_id", "number"))
              /\ itemHasProp(item, "_collection", "string"))
    THEN ErrBadProps
    ELSE OK

validateSerializedItem(item) ==
    IF Prop(item, "_id") = Str("") THEN ErrEmptyId
    ELSE IF Prop(item, "_collection") = Str("") THEN ErrEmptyCollection
    ELSE IF ~((itemHasProp(item, "_id", "string") \/ itemHasProp(item, "_id", "number"))
              /\ itemHasProp(item, "_collection", "string"))
    THEN ErrBadProps
    ELSE OK

(***************************************************************************)
(* Collection: [name, _items].  Every Collection is built with             *)
(* onUpdate = Store.persist passed as a bare method reference (line 138).  *)
(***************************************************************************)
NewCollection(name) == [name |-> name, _items |-> <<>>]

\* _putInMap with the set done before the validation
_putInMap_SetBeforeValidate(c, object, id, uuid) ==
    LET id2 == IF id = Undefined THEN uuid ELSE id
        item == Spread([_id |-> id2], object)
    IN  [err |-> _validateInsert(c, item),
         c |-> [c EXCEPT !._items = MapSet(@, item._id, item)]]

\* Collection._putInMap; uuid is what randomUUID() returns when it is called
_putInMap(c, object, id, uuid) ==
    LET id2 == IF id = Undefined THEN uuid ELSE id
        item == Spread([_id |-> id2], object)
        err == _validateInsert(c, item)
    IN  IF err # OK THEN [err |-> err, c |-> c]
        ELSE [err |-> OK, c |-> [c EXCEPT !._items = MapSet(@, item._id, item)]]

\* _insertNoSave without the call of _validateInsert
_insertNoSave_NoValidate(c, item) ==
    [err |-> OK, c |-> [c EXCEPT !._items = MapSet(@, Prop(item, "_id"), item)]]

\* Collection._insertNoSave
_insertNoSave(c, item) ==
    LET err == _validateInsert(c, item)
    IN  IF err # OK THEN [err |-> err, c |-> c]
        ELSE [err |-> OK, c |-> [c EXCEPT !._items = MapSet(@, item._id, item)]]

\* get without the test for undefined
get_NoNullCoalesce(c, id) == MapGet(c._items, id)

\* Collection.get
get(c, id) ==
    LET item == MapGet(c._items, id)
    IN  IF item = Undefined THEN Null ELSE item

\* Collection.all
all(c) == MapValues(c._items)

\* Collection.count
count(c) == Len(c._items)

(***************************************************************************)
(* Store: [fPath, _collections, heap].  _collections maps a name to a      *)
(* reference; heap[ref] is the Collection object the reference denotes.    *)
(***************************************************************************)
EmptyStore(fPath) == [fPath |-> fPath, _collections |-> <<>>, heap |-> <<>>]

\* collections without the lookup: a new Collection on every call
collections_AlwaysCreate(st, collection) ==
    [st |-> [st EXCEPT !.heap = Append(@, [name |-> collection, _items |-> <<>>]),
                       !._collections = MapSet(@, collection, Len(st.heap) + 1)],
     ref |-> Len(st.heap) + 1]

\* Store.collections: get-or-create; returns the store and the reference
collections(st, collection) ==
    IF MapHas(st._collections, collection)
    THEN [st |-> st, ref |-> MapGet(st._collections, collection)]
    ELSE LET ref == Len(st.heap) + 1
         IN  [st |-> [st EXCEPT !.heap = Append(@, NewCollection(collection)),
                                !._collections = MapSet(@, collection, ref)],
              ref |-> ref]

\* Store.hasCollection
hasCollection(st, collection) == MapHas(st._collections, collection)

\* Store.collNames
collNames(st) == MapKeys(st._collections)

RECURSIVE Concat(_)
Concat(seqs) == IF seqs = <<>> THEN <<>> ELSE Head(seqs) \o Concat(Tail(seqs))

\* JSON.stringify of one value inside an object: NaN becomes null
JsonValue(value) == IF value = NaN THEN Null ELSE value

\* JSON.stringify of an object: properties whose value is undefined are dropped
JsonObject(item) ==
    [k \in {k2 \in DOMAIN item : item[k2] # Undefined} |-> JsonValue(item[k])]

\* A JSON document (the text of a file or of serialize()), by its parse
ArrayDoc(items) == [kind |-> "array", items |-> items]
NonArrayDoc == [kind |-> "nonarray", items |-> <<>>]
MalformedDoc == [kind |-> "malformed", items |-> <<>>]
NoFile == [kind |-> "absent", items |-> <<>>]

\* The element serialize() emits for one item of collection c
SerializedItem(c, item) ==
    Spread([_id |-> item._id, _collection |-> Str(c.name)], Rest(item, {"_id"}))

\* serialize that walks the collections from the newest to the oldest
serialize_NewestCollectionFirst(st) ==
    LET n == Len(st._collections)
        colls == [i \in 1..n |-> st.heap[st._collections[n + 1 - i].val]]
        perColl == [i \in 1..Len(colls) |->
                       [j \in 1..Len(all(colls[i])) |->
                           SerializedItem(colls[i], all(colls[i])[j])]]
        items == Concat(perColl)
    IN  ArrayDoc([i \in 1..Len(items) |-> JsonObject(items[i])])

\* Store.serialize
serialize(st) ==
    LET colls == [i \in 1..Len(st._collections) |-> st.heap[st._collections[i].val]]
        perColl == [i \in 1..Len(colls) |->
                       [j \in 1..Len(all(colls[i])) |->
                           SerializedItem(colls[i], all(colls[i])[j])]]
        items == Concat(perColl)
    IN  ArrayDoc([i \in 1..Len(items) |-> JsonObject(items[i])])

\* One iteration of the forEach of storeFromObjects (and of initStore, lines
\* 127-132, which is the same code): validate, get-or-create, insert raw
LoadItem(st, item) ==
    LET verr == validateSerializedItem(item) IN
    IF verr # OK THEN [err |-> verr, st |-> st]
    ELSE LET got == collections(st, item._collection.v)
             data == Rest(item, {"_id", "_collection"})
             ins == _insertNoSave(got.st.heap[got.ref], Spread([_id |-> item._id], data))
         IN  IF ins.err # OK THEN [err |-> ins.err, st |-> got.st]
             ELSE [err |-> OK, st |-> [got.st EXCEPT !.heap[got.ref] = ins.c]]

\* forEach: stops at the first item that throws
RECURSIVE LoadItems(_, _)
LoadItems(st, items) ==
    IF items = <<>> THEN [err |-> OK, st |-> st]
    ELSE LET r == LoadItem(st, Head(items))
         IN  IF r.err # OK THEN r ELSE LoadItems(r.st, Tail(items))

(***************************************************************************)
(* The file system: fs = [dir, file]; dir says whether dirname(path)       *)
(* exists, file is the document at path (NoFile when there is none).       *)
(* Operations return the set of file-system calls they made in io.         *)
(***************************************************************************)
\* Store.initStore, run by the constructor
initStore(fPath, fs) ==
    LET st == EmptyStore(fPath) IN
    IF fPath = "" THEN [err |-> OK, st |-> st, io |-> {}]
    ELSE IF ~fs.dir THEN [err |-> OK, st |-> st, io |-> {"existsSync"}]
    ELSE IF fs.file.kind = "absent"
    THEN [err |-> ErrNoEnt, st |-> st, io |-> {"existsSync", "readFileSync"}]
    ELSE IF fs.file.kind = "malformed"
    THEN [err |-> ErrSyntax, st |-> st, io |-> {"existsSync", "readFileSync"}]
    ELSE IF fs.file.kind # "array"
    THEN [err |-> ErrFileSchema, st |-> st, io |-> {"existsSync", "readFileSync"}]
    ELSE LET r == LoadItems(st, fs.file.items)
         IN  [err |-> r.err, st |-> r.st, io |-> {"existsSync", "readFileSync"}]

\* storeFromObjects
storeFromObjects(storedData, storePath, fs) ==
    LET made == initStore(storePath, fs) IN
    IF made.err # OK THEN made
    ELSE IF storedData.kind # "array"
    THEN [err |-> ErrArgSchema, st |-> made.st, io |-> made.io]
    ELSE LET r == LoadItems(made.st, storedData.items)
         IN  [err |-> r.err, st |-> r.st, io |-> made.io]

\* storeFromFile
storeFromFile(storePath, fs) ==
    IF fs.file.kind = "absent"
    THEN [err |-> ErrNoEnt, st |-> EmptyStore(storePath), io |-> {"readFileSync"}]
    ELSE IF fs.file.kind = "malformed"
    THEN [err |-> ErrSyntax, st |-> EmptyStore(storePath), io |-> {"readFileSync"}]
    ELSE LET r == storeFromObjects(fs.file, storePath, fs)
         IN  [err |-> r.err, st |-> r.st, io |-> r.io \cup {"readFileSync"}]

(***************************************************************************)
(* Store.persist.  The receiver is the object persist runs on: the Store   *)
(* for a call store.persist(), the Collection for this._onUpdate(), since  *)
(* the Store hands its method over unbound (line 138) and the Collection   *)
(* calls it as its own member (line 59).  A Collection has the fields      *)
(* name, _items and _onUpdate and no fPath (lines 19-21).                  *)
(***************************************************************************)
StoreReceiver == [kind |-> "Store", ref |-> 0]

\* the `this` of the call this._onUpdate() made by the collection at ref
onUpdateReceiver(ref) == [kind |-> "Collection", ref |-> ref]

\* this.fPath inside persist
ThisFPath(receiver, st) ==
    IF receiver.kind = "Store" THEN Str(st.fPath) ELSE Undefined

\* persist without the early return on an empty path
persist_NoPathGuard(receiver, st, fs) ==
    [started |-> TRUE,
     content |-> serialize(st),
     fs |-> IF fs.dir THEN fs ELSE [fs EXCEPT !.dir = TRUE],
     io |-> IF fs.dir THEN {"existsSync", "writeFile"}
            ELSE {"existsSync", "mkdirSync", "writeFile"}]

\* The synchronous part of persist, up to the await of writeFile: whether a
\* write was started, its content, the file system and the calls made
persist(receiver, st, fs) ==
    IF Falsy(ThisFPath(receiver, st))
    THEN [started |-> FALSE, content |-> NoFile, fs |-> fs, io |-> {}]
    ELSE [started |-> TRUE,
          content |-> serialize(st),
          fs |-> IF fs.dir THEN fs ELSE [fs EXCEPT !.dir = TRUE],
          io |-> IF fs.dir THEN {"existsSync", "writeFile"}
                 ELSE {"existsSync", "mkdirSync", "writeFile"}]

(***************************************************************************)
(* Bounds and inputs                                                       *)
(***************************************************************************)
MaxItems == 2

StorePath == "db/store.json"
Paths == {"", StorePath}
Names == {"users", "x"}

T1 == [_id |-> Num("1"), _collection |-> Str("users"), name |-> Str("a")]
T2 == [_id |-> Str("k"), _collection |-> Str("x")]
BadEmptyId == [_id |-> Str(""), _collection |-> Str("x")]
BadEmptyColl == [_id |-> Num("2"), _collection |-> Str("")]
BadIdType == [_id |-> True, _collection |-> Str("x")]
BadNoColl == [_id |-> Num("2")]
BadNoId == [_collection |-> Str("x")]

FileDocs ==
    {ArrayDoc(<<>>), ArrayDoc(<<T1>>), ArrayDoc(<<T1, T1>>),
     ArrayDoc(<<T1, BadEmptyId>>), NonArrayDoc, MalformedDoc}

DataInputs ==
    {ArrayDoc(<<T1>>), ArrayDoc(<<T1, T2>>), ArrayDoc(<<BadEmptyId>>),
     ArrayDoc(<<T1, BadIdType>>), ArrayDoc(<<T2, BadNoColl>>),
     ArrayDoc(<<T2, BadEmptyColl>>), ArrayDoc(<<BadNoId, T1>>),
     ArrayDoc(<<T1, T1, BadEmptyId>>), NonArrayDoc}

\* (object, id) arguments of insertSync and of insert
Plain == [name |-> Str("a")]
WithCollectionKey == [name |-> Str("b"), _collection |-> Str("x")]
WithIdKey == [_id |-> Str("z"), name |-> Str("a")]
WithBadIdKey == [_id |-> True, name |-> Str("a")]

SyncInputs ==
    {<<Plain, Undefined>>, <<Plain, Str("a")>>, <<WithCollectionKey, Str("")>>,
     <<WithIdKey, Num("1")>>, <<Plain, True>>, <<Plain, Obj>>}

AsyncInputs ==
    {<<Plain, Undefined>>, <<Plain, Str("a")>>, <<Plain, Num("1")>>,
     <<Plain, Arr>>, <<WithBadIdKey, Str("a")>>}

RawItems ==
    {[_id |-> Num("1"), name |-> Str("b")], [name |-> Str("a")],
     [_id |-> Null, name |-> Str("a")]}

GetIds == {Str("a")}

\* The Stores a session starts from: new Store(path) in a file-system state
Sessions ==
    {[path |-> "", fs |-> [dir |-> FALSE, file |-> NoFile]],
     [path |-> StorePath, fs |-> [dir |-> TRUE, file |-> ArrayDoc(<<T1>>)]]}

(***************************************************************************)
(* State                                                                   *)
(***************************************************************************)
VARIABLES
    pc,         \* "none": no Store yet; "ready": a Store was returned; "failed"
    store,      \* the Store and its Collection objects
    fs,         \* the directory and the file at StorePath
    tasks,      \* async calls (insert, persist) that have not completed yet
    io,         \* file-system calls made so far
    requested,  \* names collections() has been called with so far
    last        \* the last operation, its arguments and its outcome

vars == <<pc, store, fs, tasks, io, requested, last>>

\* randomUUID(): a string that no collection holds as a key
Uuid(n) == [t |-> "string", v |-> "uuid", n |-> n]

randomUUID(st) ==
    LET used(n) == \E r \in 1..Len(st.heap) : MapHas(st.heap[r]._items, Uuid(n))
    IN  Uuid(CHOOSE n \in 1..(MaxItems + 1) :
                 ~used(n) /\ \A m \in 1..(n - 1) : used(m))

RECURSIVE SumLen(_)
SumLen(heap) == IF heap = <<>> THEN 0 ELSE count(Head(heap)) + SumLen(Tail(heap))

TotalItems(st) == SumLen(st.heap)

Refs == 1..Len(store.heap)

Op(op, err, ref, arg, ret) ==
    [op |-> op, err |-> err, ref |-> ref, arg |-> arg, ret |-> ret]

\* The state after new Store(path) returned
Init ==
    /\ pc = "ready"
    /\ \E s \in Sessions :
          /\ fs = s.fs
          /\ store = initStore(s.path, s.fs).st
          /\ io = initStore(s.path, s.fs).io
    /\ tasks = <<>>
    /\ requested = {store._collections[i].key : i \in 1..Len(store._collections)}
    /\ last = Op("new Store", OK, 0, Str(store.fPath), store)

\* What a construction leaves: the Store when it returned, nothing when it threw
Constructed(op, r, arg) ==
    /\ pc' = IF r.err = OK THEN "ready" ELSE "failed"
    /\ store' = IF r.err = OK THEN r.st ELSE store
    /\ io' = io \cup r.io
    /\ requested' = IF r.err = OK
                    THEN {r.st._collections[i].key : i \in 1..Len(r.st._collections)}
                    ELSE requested
    /\ last' = Op(op, r.err, 0, arg, r.st)
    /\ UNCHANGED <<fs, tasks>>

\* new Store(fPath)
NewStore(fPath) ==
    /\ pc = "none"
    /\ Constructed("new Store", initStore(fPath, fs), Str(fPath))

\* storeFromObjects(storedData, storePath)
StoreFromObjects(storedData, storePath) ==
    /\ pc = "none"
    /\ Constructed("storeFromObjects", storeFromObjects(storedData, storePath, fs),
                   [data |-> storedData, path |-> storePath])

\* storeFromFile(storePath)
StoreFromFile(storePath) ==
    /\ pc = "none"
    /\ Constructed("storeFromFile", storeFromFile(storePath, fs), Str(storePath))

\* store.collections(collection)
Collections(collection) ==
    /\ pc = "ready"
    /\ LET got == collections(store, collection) IN
       /\ store' = got.st
       /\ last' = Op("collections", OK, got.ref, Str(collection), Null)
    /\ requested' = requested \cup {collection}
    /\ UNCHANGED <<pc, fs, tasks, io>>

\* The item _putInMap builds from its arguments
BuiltItem(st, object, id) ==
    Spread([_id |-> IF id = Undefined THEN randomUUID(st) ELSE id], object)

\* An async call that has not completed: its write and what it writes
Task(kind, ref, item, p) ==
    [kind |-> kind, ref |-> ref, item |-> item,
     write |-> IF p.started THEN "inflight" ELSE "none", content |-> p.content]

\* insertSync that calls the Store's persist after _putInMap
InsertSync_CallsPersist(ref, object, id) ==
    /\ pc = "ready"
    /\ LET r == _putInMap(store.heap[ref], object, id, randomUUID(store))
           st2 == [store EXCEPT !.heap[ref] = r.c]
           p == persist(StoreReceiver, st2, fs)
       IN  /\ r.err = OK => TotalItems(store) < MaxItems
           /\ store' = st2
           /\ last' = Op("insertSync", r.err, ref, BuiltItem(store, object, id),
                         [object |-> object, id |-> id])
           /\ IF r.err # OK
              THEN UNCHANGED <<fs, tasks, io>>
              ELSE /\ fs' = p.fs
                   /\ io' = io \cup p.io
                   /\ tasks' = Append(tasks, Task("insert", ref, Null, p))
    /\ UNCHANGED <<pc, requested>>

\* collection.insertSync(object, id) on the Collection at ref; last keeps the
\* item that was built and the two arguments of the call
InsertSync(ref, object, id) ==
    /\ pc = "ready"
    /\ LET r == _putInMap(store.heap[ref], object, id, randomUUID(store)) IN
       /\ r.err = OK => TotalItems(store) < MaxItems
       /\ store' = [store EXCEPT !.heap[ref] = r.c]
       /\ last' = Op("insertSync", r.err, ref, BuiltItem(store, object, id),
                     [object |-> object, id |-> id])
    /\ UNCHANGED <<pc, fs, tasks, io, requested>>

\* collection._insertNoSave(item) on the Collection at ref
InsertNoSave(ref, item) ==
    /\ pc = "ready"
    /\ LET r == _insertNoSave(store.heap[ref], item) IN
       /\ r.err = OK => TotalItems(store) < MaxItems
       /\ store' = [store EXCEPT !.heap[ref] = r.c]
       /\ last' = Op("_insertNoSave", r.err, ref, item, Null)
    /\ UNCHANGED <<pc, fs, tasks, io, requested>>

\* collection.insert(object, id): _putInMap, then the call of _onUpdate up to
\* its first await; a throw of _putInMap rejects the call at once
Insert(ref, object, id) ==
    /\ pc = "ready"
    /\ LET r == _putInMap(store.heap[ref], object, id, randomUUID(store))
           st2 == [store EXCEPT !.heap[ref] = r.c]
           p == persist(onUpdateReceiver(ref), st2, fs)
           item == BuiltItem(store, object, id)
       IN  /\ r.err = OK => TotalItems(store) < MaxItems
           /\ store' = st2
           /\ IF r.err # OK
              THEN /\ last' = Op("insert", r.err, ref, item,
                                 [object |-> object, id |-> id])
                   /\ UNCHANGED <<fs, tasks, io>>
              ELSE /\ fs' = p.fs
                   /\ io' = io \cup p.io
                   /\ tasks' = Append(tasks, Task("insert", ref, item, p))
                   /\ last' = Op("insert:call", OK, ref, item,
                                 [object |-> object, id |-> id])
    /\ UNCHANGED <<pc, requested>>

\* store.persist() called by the client, up to its first await
Persist ==
    /\ pc = "ready"
    /\ LET p == persist(StoreReceiver, store, fs) IN
       /\ fs' = p.fs
       /\ io' = io \cup p.io
       /\ tasks' = Append(tasks, Task("persist", 0, Null, p))
       /\ last' = Op("persist:call", OK, 0, Null, Null)
    /\ UNCHANGED <<pc, store, requested>>

RemoveAt(s, i) == [j \in 1..(Len(s) - 1) |-> IF j < i THEN s[j] ELSE s[j + 1]]

\* writeFile calls that settle in the order they were started
WriteSettle_InCallOrder(i, ok) ==
    /\ i \in 1..Len(tasks)
    /\ tasks[i].write = "inflight"
    /\ \A j \in 1..(i - 1) : tasks[j].write # "inflight"
    /\ fs' = IF ok THEN [fs EXCEPT !.file = tasks[i].content] ELSE fs
    /\ tasks' = [tasks EXCEPT ![i].write = IF ok THEN "ok" ELSE "failed"]
    /\ last' = Op("writeFile", IF ok THEN OK ELSE ErrWrite, tasks[i].ref, Null, Null)
    /\ UNCHANGED <<pc, store, io, requested>>

\* a write that takes the serialization when it settles, not when persist ran
WriteSettle_WritesCurrentState(i, ok) ==
    /\ i \in 1..Len(tasks)
    /\ tasks[i].write = "inflight"
    /\ fs' = IF ok THEN [fs EXCEPT !.file = serialize(store)] ELSE fs
    /\ tasks' = [tasks EXCEPT ![i].write = IF ok THEN "ok" ELSE "failed"]
    /\ last' = Op("writeFile", IF ok THEN OK ELSE ErrWrite, tasks[i].ref, Null, Null)
    /\ UNCHANGED <<pc, store, io, requested>>

\* The writeFile of task i settles: the file takes the content, or the write fails
WriteSettle(i, ok) ==
    /\ i \in 1..Len(tasks)
    /\ tasks[i].write = "inflight"
    /\ fs' = IF ok THEN [fs EXCEPT !.file = tasks[i].content] ELSE fs
    /\ tasks' = [tasks EXCEPT ![i].write = IF ok THEN "ok" ELSE "failed"]
    /\ last' = Op("writeFile", IF ok THEN OK ELSE ErrWrite, tasks[i].ref, Null, Null)
    /\ UNCHANGED <<pc, store, io, requested>>

\* Task i resumes after its await and completes: insert or persist returns to
\* its caller, or is rejected with the error of the write
Complete(i) ==
    /\ i \in 1..Len(tasks)
    /\ tasks[i].write # "inflight"
    /\ tasks' = RemoveAt(tasks, i)
    /\ last' = Op(IF tasks[i].kind = "insert" THEN "insert:done" ELSE "persist:done",
                  IF tasks[i].write = "failed" THEN ErrWrite ELSE OK,
                  tasks[i].ref, tasks[i].item, tasks[i].write)
    /\ UNCHANGED <<pc, store, fs, io, requested>>

\* collection.get(id)
Get(ref, id) ==
    /\ pc = "ready"
    /\ last' = Op("get", OK, ref, id, get(store.heap[ref], id))
    /\ UNCHANGED <<pc, store, fs, tasks, io, requested>>

\* collection.all() and collection.count()
All(ref) ==
    /\ pc = "ready"
    /\ last' = Op("all", OK, ref, count(store.heap[ref]), all(store.heap[ref]))
    /\ UNCHANGED <<pc, store, fs, tasks, io, requested>>

\* storeFromObjects(JSON.parse(store.serialize())), with no path; arg keeps
\* what serialize() returned
RoundTrip ==
    /\ pc = "ready"
    /\ LET r == storeFromObjects(serialize(store), "", fs) IN
       last' = Op("roundtrip", r.err, 0, serialize(store), r.st)
    /\ UNCHANGED <<pc, store, fs, tasks, io, requested>>

\* The client of Spec awaits every async call: it makes no other call while
\* one is in flight
Idle == tasks = <<>>

Next ==
    \/ \E n \in Names : Idle /\ Collections(n)
    \/ \E r \in Refs, a \in SyncInputs : Idle /\ InsertSync(r, a[1], a[2])
    \/ \E r \in Refs, a \in AsyncInputs : Idle /\ Insert(r, a[1], a[2])
    \/ \E r \in Refs, it \in RawItems : Idle /\ InsertNoSave(r, it)
    \/ Idle /\ Persist
    \/ \E i \in 1..Len(tasks), ok \in BOOLEAN : WriteSettle(i, ok)
    \/ \E i \in 1..Len(tasks) : Complete(i)
    \/ \E r \in Refs, i \in GetIds : Idle /\ Get(r, i)
    \/ \E r \in Refs : Idle /\ All(r)
    \/ Idle /\ RoundTrip

Spec == Init /\ [][Next]_vars

(***************************************************************************)
(* SpecLoad: the three ways to build a Store, from every file-system state *)
(***************************************************************************)
InitLoad ==
    /\ pc = "none"
    /\ store = EmptyStore("")
    /\ fs \in {[dir |-> FALSE, file |-> NoFile]}
              \cup {[dir |-> TRUE, file |-> f] : f \in FileDocs \cup {NoFile}}
    /\ tasks = <<>>
    /\ io = {}
    /\ requested = {}
    /\ last = Op("init", OK, 0, Null, Null)

NextLoad ==
    \/ \E p \in Paths : NewStore(p)
    \/ \E d \in DataInputs, p \in Paths : StoreFromObjects(d, p)
    \/ StoreFromFile(StorePath)

SpecLoad == InitLoad /\ [][NextLoad]_vars

(***************************************************************************)
(* SpecBuild: a Store is built at StorePath by one of the three            *)
(* constructions, then filled without saving and saved by persist().       *)
(***************************************************************************)
BuildData == {ArrayDoc(<<T2>>), ArrayDoc(<<T1, T2>>)}
BuildSync == {<<Plain, Str("a")>>}
BuildRaw == {[_id |-> Num("1"), name |-> Str("b")]}

InitBuild ==
    /\ pc = "none"
    /\ store = EmptyStore("")
    /\ fs \in {[dir |-> FALSE, file |-> NoFile],
               [dir |-> TRUE, file |-> ArrayDoc(<<>>)],
               [dir |-> TRUE, file |-> ArrayDoc(<<T1>>)]}
    /\ tasks = <<>>
    /\ io = {}
    /\ requested = {}
    /\ last = Op("init", OK, 0, Null, Null)

NextBuild ==
    \/ NewStore(StorePath)
    \/ \E d \in BuildData : StoreFromObjects(d, StorePath)
    \/ StoreFromFile(StorePath)
    \/ \E n \in Names : Idle /\ Collections(n)
    \/ \E r \in Refs, a \in BuildSync : Idle /\ InsertSync(r, a[1], a[2])
    \/ \E r \in Refs, it \in BuildRaw : Idle /\ InsertNoSave(r, it)
    \/ Idle /\ Persist
    \/ \E i \in 1..Len(tasks), ok \in BOOLEAN : WriteSettle(i, ok)
    \/ \E i \in 1..Len(tasks) : Complete(i)

SpecBuild == InitBuild /\ [][NextBuild]_vars

(***************************************************************************)
(* SpecAsync: a client that does not await.  It calls persist() and insert *)
(* while earlier async calls are still in flight, and keeps adding records *)
(* in between; the writes settle in any order.                             *)
(***************************************************************************)
MaxTasks == 2

AsyncNames == {"users"}
AsyncSync == {<<Plain, Undefined>>}
AsyncAsync == {<<Plain, Str("a")>>}

AsyncSessions ==
    {[path |-> StorePath, fs |-> [dir |-> FALSE, file |-> NoFile]],
     [path |-> StorePath, fs |-> [dir |-> TRUE, file |-> ArrayDoc(<<T1>>)]]}

InitAsync ==
    /\ pc = "ready"
    /\ \E s \in AsyncSessions :
          /\ fs = s.fs
          /\ store = initStore(s.path, s.fs).st
          /\ io = initStore(s.path, s.fs).io
    /\ tasks = <<>>
    /\ requested = {store._collections[i].key : i \in 1..Len(store._collections)}
    /\ last = Op("new Store", OK, 0, Str(store.fPath), store)

\* The client has room for another async call
CanCall == Len(tasks) < MaxTasks

NextAsync ==
    \/ \E n \in AsyncNames : Collections(n)
    \/ \E r \in Refs, a \in AsyncSync : InsertSync(r, a[1], a[2])
    \/ \E r \in Refs, a \in AsyncAsync : CanCall /\ Insert(r, a[1], a[2])
    \/ CanCall /\ Persist
    \/ \E i \in 1..Len(tasks), ok \in BOOLEAN : WriteSettle(i, ok)
    \/ \E i \in 1..Len(tasks) : Complete(i)

SpecAsync == InitAsync /\ [][NextAsync]_vars

(***************************************************************************)
(* Vocabulary of the properties                                            *)
(***************************************************************************)
InsertOps == {"insertSync", "insert", "insert:call", "_insertNoSave"}

\* The identifier the last insertion ended up with
ResultingId == Prop(last.arg, "_id")

NamesOf(st) == {collNames(st)[i] : i \in 1..Len(collNames(st))}

CollectionOf(st, name) == st.heap[MapGet(st._collections, name)]

ItemsOf(st, name) ==
    {all(CollectionOf(st, name))[j] : j \in 1..count(CollectionOf(st, name))}

SameContents(a, b) ==
    /\ NamesOf(a) = NamesOf(b)
    /\ \A n \in NamesOf(a) \cap NamesOf(b) :
          /\ ItemsOf(a, n) = ItemsOf(b, n)
          /\ count(CollectionOf(a, n)) = count(CollectionOf(b, n))

ValidDoc(doc) ==
    /\ doc.kind = "array"
    /\ \A i \in 1..Len(doc.items) :
          /\ {"_id", "_collection"} \subseteq DOMAIN doc.items[i]
          /\ doc.items[i]["_id"].t \in {"string", "number"}
          /\ doc.items[i]["_id"] # Str("")
          /\ doc.items[i]["_collection"].t = "string"
          /\ doc.items[i]["_collection"] # Str("")

HasInvalid(doc) == doc.kind = "array" /\ ~ValidDoc(doc)

SameTag(x, y) ==
    /\ Prop(x, "_id") = Prop(y, "_id")
    /\ Prop(x, "_collection") = Prop(y, "_collection")

NoDuplicates(doc) ==
    \A i, j \in 1..Len(doc.items) : i < j => ~SameTag(doc.items[i], doc.items[j])

\* The records of doc tagged name, without the tag
RecordsOf(doc, name) ==
    {Rest(doc.items[i], {"_collection"}) :
        i \in {k \in 1..Len(doc.items) : doc.items[k]["_collection"] = Str(name)}}

TagsOf(doc) == {doc.items[i]["_collection"].v : i \in 1..Len(doc.items)}

(***************************************************************************)
(* C1 - Uniqueness.  In every step, for every Collection and every         *)
(* identifier i it holds: get(i) returns after the step the record it      *)
(* returned before, and an insertion (insertSync, insert, _insertNoSave)   *)
(* whose identifier is i fails with the InsertionError "already exists".   *)
(***************************************************************************)
C1_Uniqueness ==
    [][\A r \in 1..Len(store.heap) :
          \A k \in 1..count(store.heap[r]) :
             LET i == store.heap[r]._items[k].key IN
             /\ r <= Len(store'.heap)
             /\ get(store'.heap[r], i) = get(store.heap[r], i)
             /\ (last'.op \in InsertOps /\ last'.ref = r /\ Prop(last'.arg, "_id") = i)
                   => last'.err = ErrIdExists]_vars

\* A second insertion under an identifier already present, with other fields,
\* was rejected and the first record is still the one get returns
C1_Witness ==
    /\ last.op \in InsertOps
    /\ last.err = ErrIdExists
    /\ get(store.heap[last.ref], ResultingId) # Null
    /\ get(store.heap[last.ref], ResultingId) # last.arg

(***************************************************************************)
(* C2 - Round-trip.  After storeFromObjects(JSON.parse(store.serialize())) *)
(* on a Store all of whose collections hold records, the call succeeded    *)
(* and the rebuilt Store has the same collection names, the same records   *)
(* per collection and the same counts.                                     *)
(***************************************************************************)
C2_RoundTrip ==
    (/\ last.op = "roundtrip"
     /\ \A r \in Refs : count(store.heap[r]) > 0)
        => /\ last.err = OK
           /\ SameContents(last.ret, store)

(***************************************************************************)
(* C3 - Loading from a file.  storeFromFile(path) on a file that holds an  *)
(* array of valid tagged records without duplicates succeeds, and every    *)
(* collection holds exactly the file's records for it, each once.          *)
(***************************************************************************)
C3_LoadFromFile ==
    (/\ last.op = "storeFromFile"
     /\ ValidDoc(fs.file)
     /\ NoDuplicates(fs.file))
        => /\ last.err = OK
           /\ pc = "ready"
           /\ NamesOf(store) = TagsOf(fs.file)
           /\ \A n \in NamesOf(store) :
                 /\ ItemsOf(store, n) = RecordsOf(fs.file, n)
                 /\ count(CollectionOf(store, n)) = Cardinality(RecordsOf(fs.file, n))

(***************************************************************************)
(* C4 - Persisted insert.  When insert completes successfully on a         *)
(* Collection of a Store with a non-empty path, a write of the file has    *)
(* settled for it and the file holds the element of the inserted record.   *)
(***************************************************************************)
C4_PersistedInsert ==
    (/\ last.op = "insert:done"
     /\ last.err = OK
     /\ store.fPath # "")
        => /\ last.ret = "ok"
           /\ fs.file.kind = "array"
           /\ \E k \in 1..Len(fs.file.items) :
                 fs.file.items[k] =
                    JsonObject(SerializedItem(store.heap[last.ref], last.arg))

(***************************************************************************)
(* C5 - A failed insertion changes nothing.  A step in which insert,       *)
(* insertSync or _insertNoSave fails with InsertionError leaves every      *)
(* Collection of the Store as it was, starts no async call or write and    *)
(* makes no file-system call.                                              *)
(***************************************************************************)
C5_FailedInsertChangesNothing ==
    [][(last'.op \in InsertOps /\ IsInsertionError(last'.err))
          => /\ store' = store
             /\ tasks' = tasks
             /\ fs' = fs
             /\ io' = io]_vars

\* A persisted insert under an identifier already present was rejected, on a
\* Store that has a path
C5_Witness ==
    /\ last.op = "insert"
    /\ last.err = ErrIdExists
    /\ store.fPath # ""
    /\ TotalItems(store) > 0

(***************************************************************************)
(* C6 - Construction with a path.  new Store(path) with a non-empty path   *)
(* succeeds with no collections whenever the parent directory is missing   *)
(* or the directory is there and the file is not.                          *)
(***************************************************************************)
C6_ConstructionSkipsMissingFile ==
    (/\ last.op = "new Store"
     /\ last.arg # Str("")
     /\ ~(fs.dir /\ fs.file.kind # "absent"))
        => /\ last.err = OK
           /\ pc = "ready"
           /\ store._collections = <<>>

(***************************************************************************)
(* C7 - No partial acceptance.  As claimed: when the array given to        *)
(* storeFromObjects, or the file read by the constructor, contains an      *)
(* invalid tagged record, the call fails with InvalidItemError and no      *)
(* Store is returned.                                                      *)
(***************************************************************************)
LoadedDoc ==
    IF last.op = "storeFromObjects" THEN last.arg.data ELSE fs.file

IsLoad ==
    \/ last.op = "storeFromObjects"
    \/ last.op = "new Store" /\ last.arg # Str("") /\ fs.dir

FirstInvalid(doc) ==
    CHOOSE i \in 1..Len(doc.items) :
        /\ ~ValidDoc(ArrayDoc(<<doc.items[i]>>))
        /\ \A j \in 1..(i - 1) : ValidDoc(ArrayDoc(<<doc.items[j]>>))

\* The Store under construction is empty when the array is read: no path, or
\* the constructor itself is the one reading
StartsEmpty == last.op = "new Store" \/ last.arg.path = ""

C8_InMemoryOnly ==
    store.fPath = ""
        => /\ io = {}
           /\ fs = [dir |-> FALSE, file |-> NoFile]
           /\ \A i \in 1..Len(tasks) : tasks[i].write = "none"
           /\ (last.op \in {"insert:done", "persist:done"}) => last.ret = "none"
           /\ (/\ last.op = "insertSync"
               /\ last.err = OK
               /\ TotalItems(store) = 1
               /\ store.heap[last.ref].name = "users")
                 => count(CollectionOf(store, "users")) = 1

\* persist() has completed on an in-memory Store that holds a record
C8_Witness ==
    /\ store.fPath = ""
    /\ last.op = "persist:done"
    /\ TotalItems(store) > 0

(***************************************************************************)
(* C9 - Lazy creation and identity stability.  hasCollection(x) is true    *)
(* exactly for the names collections() was called with (by the client or   *)
(* by a load); once true it stays true, the name keeps denoting the same   *)
(* Collection object, that object keeps its name and its records, and      *)
(* collections(x) returns that object.                                     *)
(***************************************************************************)
C9_LazyCreation ==
    /\ \A x \in Names : hasCollection(store, x) <=> x \in requested
    /\ [][\A x \in Names :
             /\ hasCollection(store', x) <=> x \in requested'
             /\ (last'.op = "collections" /\ last'.arg = Str(x))
                   => /\ hasCollection(store', x)
                      /\ last'.ref = MapGet(store'._collections, x)
             /\ hasCollection(store, x)
                   => /\ hasCollection(store', x)
                      /\ MapGet(store'._collections, x) = MapGet(store._collections, x)
                      /\ CollectionOf(store', x).name = x
                      /\ ItemsOf(store, x) \subseteq ItemsOf(store', x)]_vars

\* collections(x) was called again and returned the Collection that already
\* holds a record
C9_Witness ==
    /\ last.op = "collections"
    /\ count(store.heap[last.ref]) > 0

(***************************************************************************)
(* C10 - Id typing.  An insertion whose resulting identifier is neither a  *)
(* string nor a number fails with the InsertionError about the id type,    *)
(* and no Collection holds a record under such an identifier.              *)
(***************************************************************************)
C10_IdTyping ==
    /\ (last.op \in InsertOps /\ TypeOf(ResultingId) \notin {"string", "number"})
          => last.err = ErrIdType
    /\ \A r \in Refs : \A k \in 1..count(store.heap[r]) :
          /\ TypeOf(store.heap[r]._items[k].key) \in {"string", "number"}
          /\ store.heap[r]._items[k].val["_id"] = store.heap[r]._items[k].key

\* The persisted insert of an object whose own _id key is a boolean failed
C10_Witness ==
    /\ last.op = "insert"
    /\ ResultingId = True
    /\ last.err = ErrIdType

(***************************************************************************)
(* C11 - Identifier well-formedness.  No Collection holds a record whose   *)
(* identifier is the empty string, whatever call put it there, and every   *)
(* element of the Store's serialization is accepted by                     *)
(* validateSerializedItem.                                                 *)
(***************************************************************************)
C11_IdWellFormed ==
    /\ \A r \in Refs : \A k \in 1..count(store.heap[r]) :
          store.heap[r]._items[k].key # Str("")
    /\ \A i \in 1..Len(serialize(store).items) :
          validateSerializedItem(serialize(store).items[i]) = OK

(***************************************************************************)
(* C12 - get is a pure read.  A step that is a call get(i) leaves the      *)
(* Store, its Collections, the file system, the async calls and the call   *)
(* log as they were, does not fail, and returns the record stored under i  *)
(* or null when there is none; a get(i) right after a get(i) on the same   *)
(* Collection returns the same result.                                     *)
(***************************************************************************)
C12_GetIsPure ==
    [][last'.op = "get"
          => /\ store' = store
             /\ fs' = fs
             /\ tasks' = tasks
             /\ io' = io
             /\ last'.err = OK
             /\ LET items == store.heap[last'.ref]._items
                    hits == {k \in 1..Len(items) : items[k].key = last'.arg}
                IN  IF hits = {} THEN last'.ret = Null
                    ELSE \A k \in hits : last'.ret = items[k].val
             /\ (last.op = "get" /\ last.ref = last'.ref /\ last.arg = last'.arg)
                   => last'.ret = last.ret]_vars

\* get returned a record of a Collection that holds another record as well
C12_Witness ==
    /\ last.op = "get"
    /\ last.ret # Null
    /\ count(store.heap[last.ref]) > 1

(***************************************************************************)
(* C13 - Serialization order.  serialize() has exactly one element per     *)
(* stored record.  A successful insertion into a Collection puts its       *)
(* element right after the elements of that Collection and of the          *)
(* Collections registered before it, and before the elements of the        *)
(* Collections registered after it; a new Collection is registered after   *)
(* all earlier ones; no other step changes the sequence of elements.       *)
(***************************************************************************)
IdsOf(doc) == [i \in 1..Len(doc.items) |-> doc.items[i]["_id"]]

InsertAt(s, pos, e) == SubSeq(s, 1, pos - 1) \o <<e>> \o SubSeq(s, pos, Len(s))

\* The position in registration order of the Collection at ref
RegisteredAt(st, ref) ==
    CHOOSE j \in 1..Len(st._collections) : st._collections[j].val = ref

\* The number of records of the first j registered Collections
RECURSIVE CountUpTo(_, _)
CountUpTo(st, j) ==
    IF j = 0 THEN 0
    ELSE count(st.heap[st._collections[j].val]) + CountUpTo(st, j - 1)

C13_SerializationOrder ==
    /\ serialize(store).kind = "array"
    /\ Len(serialize(store).items) = TotalItems(store)
    /\ [][store' # store
             => LET old == IdsOf(serialize(store))
                    new == IdsOf(serialize(store'))
                IN  /\ Len(new) = TotalItems(store')
                    /\ \/ collNames(store') = collNames(store)
                       \/ \E x \in Names :
                             collNames(store') = Append(collNames(store), x)
                    /\ IF last'.op \in InsertOps /\ last'.err = OK
                       THEN new = InsertAt(old,
                                     CountUpTo(store, RegisteredAt(store, last'.ref)) + 1,
                                     Prop(last'.arg, "_id"))
                       ELSE new = old]_vars

\* A record was inserted into the Collection registered first while the one
\* registered second holds a record: its element is not the last of the array
C13_Witness ==
    /\ last.op \in InsertOps
    /\ last.err = OK
    /\ Len(store._collections) = 2
    /\ last.ref = store._collections[1].val
    /\ count(store.heap[store._collections[2].val]) > 0
    /\ IdsOf(serialize(store))[Len(serialize(store).items)] # Prop(last.arg, "_id")

(***************************************************************************)
(* C14 - Tag fidelity.  For every record r of every Collection c, the      *)
(* element serialize() emits for r has _collection equal to the name of c  *)
(* and _id equal to the identifier r is stored under, whatever the user    *)
(* fields of r are.                                                        *)
(***************************************************************************)
C14_TagFidelity ==
    \A j \in 1..Len(store._collections) :
       LET c == store.heap[store._collections[j].val] IN
       \A k \in 1..count(c) :
          LET e == serialize(store).items[CountUpTo(store, j - 1) + k] IN
          /\ e["_collection"] = Str(c.name)
          /\ e["_id"] = c._items[k].key

(***************************************************************************)
(* C15 - Explicit identifier respected.  A step in which insertSync or     *)
(* insert is called with an explicit identifier id and passes validation   *)
(* leaves the record indexed under id: get(id) returns a record whose _id  *)
(* is id and whose other fields are those of the object given, and the     *)
(* count of the Collection has grown by one; for every object, one that    *)
(* has an _id key of its own included.                                     *)
(***************************************************************************)
C15_ExplicitIdRespected ==
    [][(/\ last'.op \in {"insertSync", "insert:call"}
        /\ last'.err = OK
        /\ last'.ret.id # Undefined)
          => LET before == store.heap[last'.ref]
                 after == store'.heap[last'.ref]
                 id == last'.ret.id
             IN  /\ MapHas(after._items, id)
                 /\ Prop(get(after, id), "_id") = id
                 /\ Rest(get(after, id), {"_id"}) = Rest(last'.ret.object, {"_id"})
                 /\ count(after) = count(before) + 1]_vars

(***************************************************************************)
(* C16 - Loading and bulk building never write back.  A step that is a     *)
(* construction (new Store, storeFromObjects, storeFromFile), an           *)
(* insertSync or an _insertNoSave leaves the directory and the file as     *)
(* they were and makes no file-system call other than existsSync and       *)
(* readFileSync; the content of the file changes only in the step in       *)
(* which the write of an async call that went through persist() settles,   *)
(* and then to the content of that write.                                  *)
(***************************************************************************)
C16_NeverWritesBack ==
    [][/\ (last'.op \in {"new Store", "storeFromObjects", "storeFromFile",
                         "insertSync", "_insertNoSave"})
             => /\ fs' = fs
                /\ (io' \ io) \subseteq {"existsSync", "readFileSync"}
                /\ tasks' = tasks
       /\ fs'.file # fs.file
             => \E i \in 1..Len(tasks) :
                   /\ tasks[i].write = "inflight"
                   /\ tasks'[i].write = "ok"
                   /\ fs'.file = tasks[i].content
                   /\ last'.op = "writeFile"]_vars

\* A Store was built from the file, a record was added by insertSync, and
\* the file still holds what it held: not the serialization of the Store
C16_Witness ==
    /\ last.op = "insertSync"
    /\ last.err = OK
    /\ "readFileSync" \in io
    /\ "writeFile" \notin io
    /\ fs.file = ArrayDoc(<<T1>>)
    /\ fs.file # serialize(store)

(***************************************************************************)
(* C17 - Append-only history.  In every step that changes the Store, every *)
(* collection name known before is known after, no Collection has fewer    *)
(* records than before, and every identifier that denoted a record before  *)
(* denotes that same record after, in the same Collection.                 *)
(***************************************************************************)
C17_AppendOnly ==
    [][store' # store
          => \A x \in NamesOf(store) :
                /\ x \in NamesOf(store')
                /\ count(CollectionOf(store', x)) >= count(CollectionOf(store, x))
                /\ \A k \in 1..count(CollectionOf(store, x)) :
                      LET e == CollectionOf(store, x)._items[k]
                      IN  get(CollectionOf(store', x), e.key) = e.val]_vars

\* A second Collection and a second record were added after the first ones
C17_Witness ==
    /\ last.op \in InsertOps
    /\ last.err = OK
    /\ Len(store._collections) = 2
    /\ TotalItems(store) >= 2

(***************************************************************************)
(* C18 - Failed write on a persisted insert.  An insert that passed        *)
(* validation on a Collection of a Store with a non-empty path completes   *)
(* only after a write of the file has settled for it; it is rejected with  *)
(* the error of the write exactly when that write failed, and the          *)
(* Collection then holds the record all the same.                          *)
(***************************************************************************)
C18_FailedWriteRejectsInsert ==
    (last.op = "insert:done" /\ store.fPath # "")
        => /\ last.ret \in {"ok", "failed"}
           /\ last.ret = "failed" <=> last.err = ErrWrite
           /\ get(store.heap[last.ref], ResultingId) = last.arg

C20_SnapshotAtCall ==
    [][/\ (last'.op = "persist:call" /\ Len(tasks') = Len(tasks) + 1
             /\ tasks'[Len(tasks')].write = "inflight")
             => /\ tasks'[Len(tasks')].content = serialize(store)
                /\ store' = store
       /\ IF last'.op \in {"persist:done", "insert:done"}
          THEN \A j \in 1..Len(tasks') : \E i \in 1..Len(tasks) : tasks'[j] = tasks[i]
          ELSE /\ Len(tasks') >= Len(tasks)
               /\ \A i \in 1..Len(tasks) : tasks'[i].content = tasks[i].content
       /\ (last'.op = "writeFile" /\ last'.err = OK)
             => \E i \in 1..Len(tasks) :
                   /\ tasks[i].write = "inflight"
                   /\ tasks'[i].write = "ok"
                   /\ fs'.file = tasks[i].content
       /\ fs'.file # fs.file => (last'.op = "writeFile" /\ last'.err = OK)]_vars

\* The only write in flight has settled after a record was added to the
\* Store: the file holds the Store as it was at the call, without that record
C20_Witness ==
    /\ last.op = "writeFile"
    /\ last.err = OK
    /\ Len(tasks) = 1
    /\ tasks[1].kind = "persist"
    /\ fs.file = tasks[1].content
    /\ fs.file.kind = "array"
    /\ Len(fs.file.items) < TotalItems(store)

====
